---- MODULE Spec2Model ----
(***************************************************************************)
(* Attendance and leave-report bot (main.py): check-in / check-out         *)
(* sessions, leave reports with a due time, the one-shot overdue job, the  *)
(* periodic overdue sweep and the per-subject counters.                    *)
(*                                                                         *)
(* The three tables of the store are the variables checkins, reports and   *)
(* stats.  A handler is split at its await points: the code between two    *)
(* awaits runs without interruption on the event loop, so it is one step   *)
(* and reads one value of the clock.  A subject is the user id (a single   *)
(* chat).                                                                  *)
(***************************************************************************)
EXTENDS Integers, Sequences, FiniteSets, TLC

VARIABLES
    now,        \* the wall clock, epoch seconds (time.time())
    checkins,   \* table checkins: a set of rows, key (user, date)
    reports,    \* table reports: a sequence of rows, index = id (AUTOINCREMENT)
    stats,      \* table stats: user -> [late_count, overdue_count], rows made lazily
    locks,      \* _locks: user -> whether the subject's asyncio.Lock is held
    pending,    \* user -> the reply the subject's handler is awaiting delivery of
    jobs,       \* JobQueue: report id -> its one-shot job: "none" (not scheduled, or
                \* run and removed), "armed", "sending" (send_overdue_alert awaiting)
    sweepRows,  \* overdue_checker: the rows of the current tick still to process
    counted,    \* history: report id -> the overdue increments made for it
    up,         \* whether the process (main(), run_polling) is running
    restarts    \* how many times the process has been stopped and started again

vars == <<now, checkins, reports, stats, locks, pending, jobs, sweepRows, counted,
          up, restarts>>

----------------------------------------------------------------------------
(* Configuration                                                            *)

\* TZ = timezone(timedelta(hours=7)), in seconds
TZ == 7 * 3600

\* CHECKIN_DEADLINE = "15:00:00", as the sequence of its character codes
CHECKIN_DEADLINE == <<49, 53, 58, 48, 48, 58, 48, 48>>

RESET_HOURS == 12

\* REPORT_MAP, keyword -> minutes ("chifan" is the key written 吃饭, "chouyan" 抽烟)
REPORT_MAP == [k \in {"wc", "wcd", "chouyan", "chifan"} |->
                  CASE k = "wc"      -> 5
                    [] k = "wcd"     -> 10
                    [] k = "chouyan" -> 5
                    [] k = "chifan"  -> 30]

----------------------------------------------------------------------------
(* Bounds of the model                                                      *)

Users == {1}

\* the keywords a StartReport is tried with
Keywords == {"chouyan"}

\* at most this many reports are created in a run
MaxReports == 2

\* at most this many times is the process stopped and started again
MaxRestarts == 1

\* epoch seconds of local day d, h:m:s
At(d, h, m, s) == d * 86400 + h * 3600 + m * 60 + s - TZ

\* the readings of the clock: the deadline second and the next one, the due
\* second of a report started at the first, then, on the next day, exactly
\* RESET_HOURS after the first and one second more than RESET_HOURS after that
Instants ==
    { At(1, 15, 0, 0), At(1, 15, 0, 1),
      At(1, 15, 5, 0),
      At(2, 3, 0, 0),
      At(2, 15, 0, 1) }

T0 == CHOOSE t \in Instants : \A x \in Instants : t <= x

----------------------------------------------------------------------------
(* Helpers                                                                  *)

\* SQL NULL / Python None in an integer column
Null == 0 - 1

Max(a, b) == IF a >= b THEN a ELSE b
Min(a, b) == IF a <= b THEN a ELSE b

\* now.strftime("%Y-%m-%d") in TZ, as the number of the local day
LocalDate(ts) == (ts + TZ) \div 86400

TwoDigits(n) == <<48 + (n \div 10), 48 + (n % 10)>>

\* fmt_hms: dt.strftime("%H:%M:%S") in TZ, as character codes
fmt_hms(ts) ==
    LET sod == (ts + TZ) % 86400
    IN  TwoDigits(sod \div 3600) \o <<58>> \o TwoDigits((sod % 3600) \div 60)
          \o <<58>> \o TwoDigits(sod % 60)

\* Python's str > str: lexicographic on the code points, a proper prefix is smaller
RECURSIVE StrGreater(_, _)
StrGreater(a, b) ==
    IF a = <<>> THEN FALSE
    ELSE IF b = <<>> THEN TRUE
    ELSE IF Head(a) # Head(b) THEN Head(a) > Head(b)
    ELSE StrGreater(Tail(a), Tail(b))

overlap_whole_report(a1, a2, b1, b2) == Max(0, b2 - b1)
overlap_seconds(a1, a2, b1, b2) == Max(0, Min(a2, b2) - Max(a1, b1))

to_int(x, default) == IF x = Null THEN default ELSE x

\* is_late = fmt_hms(now) > CHECKIN_DEADLINE
IsLateGe(ts) == ~StrGreater(CHECKIN_DEADLINE, fmt_hms(ts))
IsLate(ts) == StrGreater(fmt_hms(ts), CHECKIN_DEADLINE)

\* get_lock(chat_id, user_id): whether the asyncio.Lock of the key is held; each
\* key has a lock of its own
get_lock_of_all_keys(lk, u) == \E v \in DOMAIN lk : lk[v]
get_lock(lk, u) == lk[u]

----------------------------------------------------------------------------
(* Table stats                                                              *)

ensure_stats_row(st, u) ==
    IF u \in DOMAIN st THEN st
    ELSE [x \in DOMAIN st \cup {u} |->
            IF x = u THEN [late_count |-> 0, overdue_count |-> 0] ELSE st[x]]

inc_overdue_count(st, u) ==
    LET s == ensure_stats_row(st, u)
    IN  [s EXCEPT ![u].overdue_count = @ + 1]

inc_late_count_overdue_column(st, u) == inc_overdue_count(st, u)
inc_late_count(st, u) ==
    LET s == ensure_stats_row(st, u)
    IN  [s EXCEPT ![u].late_count = @ + 1]

get_late_count(st, u) == ensure_stats_row(st, u)[u].late_count
get_overdue_count(st, u) == ensure_stats_row(st, u)[u].overdue_count

----------------------------------------------------------------------------
(* Table checkins                                                           *)

\* force-close every open row of u older than RESET_HOURS
repair_close_at_now(cks, u, now_ts) ==
    { IF c.user = u /\ c.end_ts = Null /\ now_ts - c.start_ts > RESET_HOURS * 3600
      THEN [c EXCEPT !.end_ts = now_ts, !.work_seconds = 0]
      ELSE c : c \in cks }
repair_legacy_open_checkins(cks, u, now_ts) ==
    { IF c.user = u /\ c.end_ts = Null
         /\ to_int(c.start_ts, 0) # 0
         /\ now_ts - to_int(c.start_ts, 0) > RESET_HOURS * 3600
      THEN [c EXCEPT !.end_ts = c.start_ts, !.work_seconds = 0]
      ELSE c : c \in cks }

\* SELECT 1 FROM checkins WHERE user AND date = today
HasRowAnyDay(cks, u, today) == \E c \in cks : c.user = u
HasRowToday(cks, u, today) == \E c \in cks : c.user = u /\ c.date = today

\* SELECT ... WHERE end_ts IS NULL ORDER BY start_ts DESC LIMIT 1
OpenOrClosedRows(cks, u) == { c \in cks : c.user = u }
OpenRows(cks, u) == { c \in cks : c.user = u /\ c.end_ts = Null }
LatestOpenRow(cks, u) ==
    CHOOSE c \in OpenRows(cks, u) : \A d \in OpenRows(cks, u) : d.start_ts <= c.start_ts

----------------------------------------------------------------------------
(* Table reports                                                            *)

Ids(reps) == 1 .. Len(reps)

OngoingIds(reps, u) == { i \in Ids(reps) : reps[i].user = u /\ reps[i].status = "ongoing" }

\* the id of the user's ongoing report (ORDER BY start_ts DESC LIMIT 1), 0 if none
get_user_ongoing_report_unalerted(reps, u) ==
    LET ids == { i \in OngoingIds(reps, u) : reps[i].alerted = 0 }
    IN  IF ids = {} THEN 0 ELSE CHOOSE i \in ids : TRUE
get_user_ongoing_report(reps, u) ==
    IF OngoingIds(reps, u) = {} THEN 0
    ELSE CHOOSE i \in OngoingIds(reps, u) :
            \A j \in OngoingIds(reps, u) :
                reps[j].start_ts < reps[i].start_ts
                \/ (reps[j].start_ts = reps[i].start_ts /\ j >= i)

create_report(reps, u, keyword, minutes, now_ts) ==
    Append(reps, [user |-> u, keyword |-> keyword, minutes |-> minutes,
                  start_ts |-> now_ts, due_ts |-> now_ts + minutes * 60,
                  status |-> "ongoing", end_ts |-> Null, alerted |-> 0])

finish_report_status_only(reps, rid, now_ts) ==
    [reps EXCEPT ![rid].status = "returned"]
finish_report(reps, rid, now_ts) ==
    [reps EXCEPT ![rid].status = "returned", ![rid].end_ts = now_ts]

mark_alerted(reps, rid) == [reps EXCEPT ![rid].alerted = 1]

----------------------------------------------------------------------------
(* Settlement (do_offwork)                                                  *)

\* WHERE user AND due_ts > start_ts AND start_ts < now_ts
ReportRows(reps, u, start_ts, now_ts) ==
    { i \in Ids(reps) : reps[i].user = u /\ reps[i].due_ts > start_ts
                        /\ reps[i].start_ts < now_ts }

\* r_end of one row of the loop
ReportEndAllotted(rr, now_ts) == Min(to_int(rr.due_ts, now_ts), now_ts)
ReportEnd(rr, now_ts) ==
    IF rr.status = "returned" /\ rr.end_ts # Null
    THEN to_int(rr.end_ts, now_ts)
    ELSE Min(to_int(rr.due_ts, now_ts), now_ts)

\* the loop "for rr in report_rows", summing report_overlap_sec
RECURSIVE ReportOverlap(_, _, _, _)
ReportOverlap(reps, rows, start_ts, now_ts) ==
    IF rows = {} THEN 0
    ELSE LET i == CHOOSE x \in rows : TRUE
             rr == reps[i]
             r_start == to_int(rr.start_ts, 0)
         IN  (IF r_start <= 0 THEN 0
              ELSE overlap_seconds(start_ts, now_ts, r_start, ReportEnd(rr, now_ts)))
             + ReportOverlap(reps, rows \ {i}, start_ts, now_ts)

----------------------------------------------------------------------------
(* Replies                                                                  *)

NoReply == [kind |-> "none", total |-> 0, gross |-> 0, deducted |-> 0, net |-> 0,
            rid |-> 0, start |-> 0]

Reply(kind) == [NoReply EXCEPT !.kind = kind]

----------------------------------------------------------------------------
(* Initial state: main() after db_init() on an empty store                  *)

Init ==
    /\ now = T0
    /\ checkins = {}
    /\ reports = <<>>
    /\ stats = <<>>
    /\ locks = [u \in Users |-> FALSE]
    /\ pending = [u \in Users |-> NoReply]
    /\ jobs = <<>>
    /\ sweepRows = <<>>
    /\ counted = <<>>
    /\ up = TRUE
    /\ restarts = 0

----------------------------------------------------------------------------
(* Actions                                                                  *)

\* the clock advances to a later reading.  A reply is delivered within the
\* reading it was sent at: the wait for it changes no table, and whatever may
\* run during it may as well run after it.
Tick ==
    /\ \A u \in DOMAIN locks : ~locks[u]
    /\ \E t \in Instants : t > now /\ now' = t
    /\ UNCHANGED <<checkins, reports, stats, locks, pending, jobs, sweepRows, counted,
                   up, restarts>>

\* do_checkin up to its reply
CheckIn(u) ==
    /\ ~get_lock(locks, u)
    /\ locks' = [locks EXCEPT ![u] = TRUE]
    /\ LET repaired == repair_legacy_open_checkins(checkins, u, now)
           today == LocalDate(now)
           is_late == IsLate(now)
           row == [user |-> u, date |-> today, start_ts |-> now, end_ts |-> Null,
                   work_seconds |-> 0, is_late |-> IF is_late THEN 1 ELSE 0]
       IN  IF HasRowToday(repaired, u, today)
           THEN /\ checkins' = repaired
                /\ stats' = stats
                /\ pending' = [pending EXCEPT ![u] = Reply("AlreadyOpen")]
           ELSE /\ checkins' = repaired \cup {row}
                /\ stats' = IF is_late THEN inc_late_count(stats, u) ELSE stats
                /\ pending' = [pending EXCEPT ![u] =
                                 IF is_late
                                 THEN [Reply("Late") EXCEPT
                                         !.total = get_late_count(stats', u),
                                         !.start = now]
                                 ELSE [Reply("CheckedIn") EXCEPT !.start = now]]
    /\ UNCHANGED <<now, reports, jobs, sweepRows, counted, up, restarts>>

\* a do_offwork that also ends the subject's ongoing report
CheckOutClosingReport(u) ==
    /\ ~get_lock(locks, u)
    /\ locks' = [locks EXCEPT ![u] = TRUE]
    /\ LET repaired == repair_legacy_open_checkins(checkins, u, now)
           rid == get_user_ongoing_report(reports, u)
       IN  IF OpenRows(repaired, u) = {}
           THEN /\ checkins' = repaired
                /\ reports' = reports
                /\ pending' = [pending EXCEPT ![u] = Reply("NoOpenSession")]
           ELSE LET row == LatestOpenRow(repaired, u)
                    start_ts == to_int(row.start_ts, 0)
                    report_overlap_sec ==
                        ReportOverlap(reports, ReportRows(reports, u, start_ts, now),
                                      start_ts, now)
                    gross_seconds == Max(0, now - start_ts)
                    net_seconds == Max(0, gross_seconds - report_overlap_sec)
                IN  /\ checkins' = (repaired \ {row}) \cup
                          {[row EXCEPT !.end_ts = now, !.work_seconds = net_seconds]}
                    /\ reports' = IF rid = 0 THEN reports
                                  ELSE finish_report(reports, rid, now)
                    /\ pending' = [pending EXCEPT ![u] =
                          [Reply("Settled") EXCEPT !.gross = gross_seconds,
                                                   !.deducted = report_overlap_sec,
                                                   !.net = net_seconds,
                                                   !.start = start_ts]]
    /\ UNCHANGED <<now, stats, jobs, sweepRows, counted, up, restarts>>

\* do_offwork up to its reply
CheckOut(u) ==
    /\ ~get_lock(locks, u)
    /\ locks' = [locks EXCEPT ![u] = TRUE]
    /\ LET repaired == repair_legacy_open_checkins(checkins, u, now)
       IN  IF OpenRows(repaired, u) = {}
              \/ to_int(LatestOpenRow(repaired, u).start_ts, 0) = 0
           THEN /\ checkins' = repaired
                /\ pending' = [pending EXCEPT ![u] = Reply("NoOpenSession")]
           ELSE LET row == LatestOpenRow(repaired, u)
                    start_ts == to_int(row.start_ts, 0)
                    report_overlap_sec ==
                        ReportOverlap(reports, ReportRows(reports, u, start_ts, now),
                                      start_ts, now)
                    gross_seconds == Max(0, now - start_ts)
                    net_seconds == Max(0, gross_seconds - report_overlap_sec)
                IN  /\ checkins' = (repaired \ {row}) \cup
                          {[row EXCEPT !.end_ts = now, !.work_seconds = net_seconds]}
                    /\ pending' = [pending EXCEPT ![u] =
                          [Reply("Settled") EXCEPT !.gross = gross_seconds,
                                                   !.deducted = report_overlap_sec,
                                                   !.net = net_seconds,
                                                   !.start = start_ts]]
    /\ UNCHANGED <<now, reports, stats, jobs, sweepRows, counted, up, restarts>>

\* text_listener, "发起报备" branch, up to its reply
StartReport(u, hit) ==
    /\ ~get_lock(locks, u)
    /\ locks' = [locks EXCEPT ![u] = TRUE]
    /\ IF get_user_ongoing_report(reports, u) # 0
       THEN /\ pending' = [pending EXCEPT ![u] = Reply("AlreadyOngoing")]
            /\ UNCHANGED <<reports, jobs, counted>>
       ELSE /\ Len(reports) < MaxReports
            /\ reports' = create_report(reports, u, hit, REPORT_MAP[hit], now)
            /\ jobs' = Append(jobs, "none")
            /\ counted' = Append(counted, 0)
            /\ pending' = [pending EXCEPT ![u] =
                             [Reply("Reported") EXCEPT !.rid = Len(reports') ]]
    /\ UNCHANGED <<now, checkins, stats, sweepRows, up, restarts>>

\* text_listener, "归队" branch, up to its reply
EndReport(u) ==
    /\ ~get_lock(locks, u)
    /\ locks' = [locks EXCEPT ![u] = TRUE]
    /\ LET rid == get_user_ongoing_report(reports, u)
       IN  IF rid = 0
           THEN /\ pending' = [pending EXCEPT ![u] = Reply("NoOngoing")]
                /\ UNCHANGED <<reports, stats, counted>>
           ELSE LET row == reports[rid]
                    used == now - to_int(row.start_ts, 0)
                IN  IF now > to_int(row.due_ts, 0) /\ to_int(row.alerted, 0) = 0
                    THEN /\ reports' = mark_alerted(finish_report(reports, rid, now), rid)
                         /\ stats' = inc_overdue_count(stats, u)
                         /\ counted' = [counted EXCEPT ![rid] = @ + 1]
                         /\ pending' = [pending EXCEPT ![u] =
                               [Reply("ReturnedOverdue") EXCEPT
                                   !.total = get_overdue_count(stats', u),
                                   !.gross = used, !.rid = rid]]
                    ELSE /\ reports' = finish_report(reports, rid, now)
                         /\ pending' = [pending EXCEPT ![u] =
                               [Reply("Returned") EXCEPT !.gross = used, !.rid = rid]]
                         /\ UNCHANGED <<stats, counted>>
    /\ UNCHANGED <<now, checkins, jobs, sweepRows, up, restarts>>

\* the awaited reply_text ends (delivered or raised); the lock is released; after
\* a delivered "已报备" reply the handler arms the one-shot job (run_once)
ReplyDone(u, delivered) ==
    /\ locks[u]
    /\ locks' = [locks EXCEPT ![u] = FALSE]
    /\ pending' = [pending EXCEPT ![u] = NoReply]
    /\ jobs' = IF pending[u].kind = "Reported" /\ delivered
               THEN [jobs EXCEPT ![pending[u].rid] = "armed"]
               ELSE jobs
    /\ UNCHANGED <<now, checkins, reports, stats, sweepRows, counted, up, restarts>>

\* send_overdue_alert up to its first send_message
TimerFire(rid) ==
    /\ rid \in DOMAIN jobs
    /\ jobs[rid] = "armed"
    /\ now >= reports[rid].due_ts
    /\ jobs' = [jobs EXCEPT ![rid] =
                  IF reports[rid].status # "ongoing" \/ to_int(reports[rid].alerted, 0) = 1
                  THEN "none" ELSE "sending"]
    /\ UNCHANGED <<now, checkins, reports, stats, locks, pending, sweepRows, counted,
                   up, restarts>>

\* send_overdue_alert after its first send_message: count and mark, or the
\* send raised and the callback ends
TimerSent(rid, sent) ==
    /\ rid \in DOMAIN jobs
    /\ jobs[rid] = "sending"
    /\ jobs' = [jobs EXCEPT ![rid] = "none"]
    /\ IF sent
       THEN /\ stats' = inc_overdue_count(stats, reports[rid].user)
            /\ reports' = mark_alerted(reports, rid)
            /\ counted' = [counted EXCEPT ![rid] = @ + 1]
       ELSE UNCHANGED <<stats, reports, counted>>
    /\ UNCHANGED <<now, checkins, locks, pending, sweepRows, up, restarts>>

\* the rows of one tick of overdue_checker, in id order
RECURSIVE SweepSelectAlerted(_, _, _)
SweepSelectAlerted(reps, i, now_ts) ==
    IF i > Len(reps) THEN <<>>
    ELSE (IF reps[i].status = "ongoing" /\ reps[i].due_ts < now_ts
          THEN <<i>> ELSE <<>>) \o SweepSelectAlerted(reps, i + 1, now_ts)
SweepSelectNone(reps, i, now_ts) == <<>>
RECURSIVE SweepSelect(_, _, _)
SweepSelect(reps, i, now_ts) ==
    IF i > Len(reps) THEN <<>>
    ELSE (IF reps[i].status = "ongoing" /\ reps[i].alerted = 0 /\ reps[i].due_ts < now_ts
          THEN <<i>> ELSE <<>>) \o SweepSelect(reps, i + 1, now_ts)

\* overdue_checker wakes up and selects its rows
SweepScan ==
    /\ sweepRows = <<>>
    /\ SweepSelect(reports, 1, now) # <<>>
    /\ sweepRows' = SweepSelect(reports, 1, now)
    /\ UNCHANGED <<now, checkins, reports, stats, locks, pending, jobs, counted,
                   up, restarts>>

\* overdue_checker after the send_message of its next row (a failed send is
\* swallowed): count and mark
SweepCount ==
    /\ sweepRows # <<>>
    /\ LET rid == Head(sweepRows)
       IN  /\ stats' = inc_overdue_count(stats, reports[rid].user)
           /\ reports' = mark_alerted(reports, rid)
           /\ counted' = [counted EXCEPT ![rid] = @ + 1]
    /\ sweepRows' = Tail(sweepRows)
    /\ UNCHANGED <<now, checkins, locks, pending, jobs, up, restarts>>

Next ==
    \/ Tick
    \/ \E u \in Users : CheckIn(u)
    \/ \E u \in Users : CheckOut(u)
    \/ \E u \in Users, k \in Keywords : StartReport(u, k)
    \/ \E u \in Users : EndReport(u)
    \/ \E u \in Users, d \in BOOLEAN : ReplyDone(u, d)
    \/ \E r \in 1 .. MaxReports : TimerFire(r)
    \/ \E r \in 1 .. MaxReports, s \in BOOLEAN : TimerSent(r, s)
    \/ SweepScan
    \/ SweepCount

Spec == Init /\ [][Next]_vars

----------------------------------------------------------------------------
(* The process stops inside an operation, between two commits of the store *)

\* the process has stopped: what it held in memory is gone
Stopped ==
    /\ up' = FALSE
    /\ locks' = [u \in DOMAIN locks |-> FALSE]
    /\ pending' = [u \in DOMAIN pending |-> NoReply]
    /\ jobs' = [r \in DOMAIN jobs |-> "none"]
    /\ sweepRows' = <<>>

\* do_checkin of a late check-in stops after the commit of its INSERT, before
\* or after the commit of ensure_stats_row, before that of the UPDATE of
\* late_count
CheckInStopped(u, ensured) ==
    /\ up
    /\ ~get_lock(locks, u)
    /\ LET repaired == repair_legacy_open_checkins(checkins, u, now)
           today == LocalDate(now)
           row == [user |-> u, date |-> today, start_ts |-> now, end_ts |-> Null,
                   work_seconds |-> 0, is_late |-> 1]
       IN  /\ ~HasRowToday(repaired, u, today)
           /\ IsLate(now)
           /\ checkins' = repaired \cup {row}
           /\ stats' = IF ensured THEN ensure_stats_row(stats, u) ELSE stats
    /\ Stopped
    /\ UNCHANGED <<now, reports, counted, restarts>>

\* the return branch of text_listener stops after the commit of finish_report,
\* before (incremented = FALSE) or after the commit of the UPDATE of
\* overdue_count, before that of the UPDATE of alerted
EndReportStopped(u, incremented) ==
    /\ up
    /\ ~get_lock(locks, u)
    /\ LET rid == get_user_ongoing_report(reports, u)
       IN  /\ rid # 0
           /\ now > to_int(reports[rid].due_ts, 0)
           /\ to_int(reports[rid].alerted, 0) = 0
           /\ reports' = finish_report(reports, rid, now)
           /\ stats' = IF incremented THEN inc_overdue_count(stats, u) ELSE stats
           /\ counted' = IF incremented THEN [counted EXCEPT ![rid] = @ + 1]
                         ELSE counted
    /\ Stopped
    /\ UNCHANGED <<now, checkins, restarts>>

\* send_overdue_alert stops after the commit of inc_overdue_count, before that
\* of the UPDATE of alerted
TimerSentStopped(rid) ==
    /\ up
    /\ rid \in DOMAIN jobs
    /\ jobs[rid] = "sending"
    /\ stats' = inc_overdue_count(stats, reports[rid].user)
    /\ counted' = [counted EXCEPT ![rid] = @ + 1]
    /\ Stopped
    /\ UNCHANGED <<now, checkins, reports, restarts>>

\* overdue_checker stops after the commit of inc_overdue_count of its next row,
\* before that of the UPDATE of alerted
SweepCountStopped ==
    /\ up
    /\ sweepRows # <<>>
    /\ LET rid == Head(sweepRows)
       IN  /\ stats' = inc_overdue_count(stats, reports[rid].user)
           /\ counted' = [counted EXCEPT ![rid] = @ + 1]
    /\ Stopped
    /\ UNCHANGED <<now, checkins, reports, restarts>>

Running ==
    /\ up
    /\ Next

NextStop ==
    \/ Running
    \/ \E u \in Users, e \in BOOLEAN : CheckInStopped(u, e)
    \/ \E u \in Users, i \in BOOLEAN : EndReportStopped(u, i)
    \/ \E r \in 1 .. MaxReports : TimerSentStopped(r)
    \/ SweepCountStopped

SpecStop == Init /\ [][NextStop]_vars

----------------------------------------------------------------------------
(* Two subjects send messages within one reading of the clock: the four   *)
(* user operations and the ends of their replies, in every interleaving    *)

TwoUsers == {1, 2}

InitTwo ==
    /\ now = T0
    /\ checkins = {}
    /\ reports = <<>>
    /\ stats = <<>>
    /\ locks = [u \in TwoUsers |-> FALSE]
    /\ pending = [u \in TwoUsers |-> NoReply]
    /\ jobs = <<>>
    /\ sweepRows = <<>>
    /\ counted = <<>>
    /\ up = TRUE
    /\ restarts = 0

NextTwo ==
    \/ \E u \in TwoUsers : CheckIn(u)
    \/ \E u \in TwoUsers : CheckOut(u)
    \/ \E u \in TwoUsers, k \in Keywords : StartReport(u, k)
    \/ \E u \in TwoUsers : EndReport(u)
    \/ \E u \in TwoUsers, d \in BOOLEAN : ReplyDone(u, d)

SpecTwo == InitTwo /\ [][NextTwo]_vars

----------------------------------------------------------------------------
(* The process is stopped and started again                                 *)

\* the process ends between two steps and main() runs again: the tables of the
\* store are kept; the locks, the handlers awaiting a reply, the jobs of the
\* JobQueue and the running sweep are memory and are lost; on_startup starts a
\* new overdue_checker
Restart ==
    /\ restarts < MaxRestarts
    /\ restarts' = restarts + 1
    /\ locks' = [u \in DOMAIN locks |-> FALSE]
    /\ pending' = [u \in DOMAIN pending |-> NoReply]
    /\ jobs' = [r \in DOMAIN jobs |-> "none"]
    /\ sweepRows' = <<>>
    /\ UNCHANGED <<now, checkins, reports, stats, counted, up>>

NextLive ==
    \/ Next
    \/ Restart

\* overdue_checker is a task of the event loop that loops for ever: after each
\* sleep it selects its rows, and each awaited send_message returns or raises,
\* after which the row is counted and marked
SpecLive ==
    /\ Init
    /\ [][NextLive]_vars
    /\ WF_vars(SweepScan)
    /\ WF_vars(SweepCount)

----------------------------------------------------------------------------
(* Vocabulary of the properties                                             *)

\* the stale threshold, seconds
StaleAfter == RESET_HOURS * 3600

\* the sessions of subject u, and the open ones
Sessions(u) == { c \in checkins : c.user = u }
OpenSessions(u) == { c \in checkins : c.user = u /\ c.end_ts = Null }

\* the step is the read-modify-write of a handler of u that sends a reply of
\* one of the kinds K
Handled(u, K) == pending[u].kind = "none" /\ pending'[u].kind \in K

CheckInKinds == {"CheckedIn", "Late", "AlreadyOpen"}
CheckOutKinds == {"Settled", "NoOpenSession"}

\* the counters of u as a reader sees them (a missing row reads 0)
LateCount(st, u) == IF u \in DOMAIN st THEN st[u].late_count ELSE 0
OverdueCount(st, u) == IF u \in DOMAIN st THEN st[u].overdue_count ELSE 0

\* seconds after local midnight, and the deadline 15:00:00 in seconds
SecondOfDay(ts) == (ts + TZ) % 86400
DeadlineSecond == 15 * 3600

----------------------------------------------------------------------------
(* C1: each subject has at most one session whose end instant is null, in  *)
(* every reachable state, also across consecutive calendar days less than  *)
(* the stale threshold apart.                                              *)
C1_OneOpenSession ==
    \A u \in Users : Cardinality(OpenSessions(u)) <= 1

----------------------------------------------------------------------------
(* C2: each subject has at most one report with status ongoing in every    *)
(* reachable state; a StartReport while one is ongoing is answered         *)
(* AlreadyOngoing and creates no report, and a report is created only when *)
(* the subject has none ongoing.                                           *)
C2_OneOngoingReport ==
    [][ \A u \in Users :
          /\ Cardinality(OngoingIds(reports', u)) <= 1
          /\ Handled(u, {"Reported", "AlreadyOngoing"}) =>
                IF \E i \in 1 .. Len(reports) :
                      reports[i].user = u /\ reports[i].status = "ongoing"
                THEN pending'[u].kind = "AlreadyOngoing" /\ reports' = reports
                ELSE pending'[u].kind = "Reported" /\ Len(reports') = Len(reports) + 1
      ]_vars

\* a StartReport was refused while the subject's single report is ongoing
C2_Witness ==
    \E u \in Users :
        /\ pending[u].kind = "AlreadyOngoing"
        /\ Cardinality(OngoingIds(reports, u)) = 1

----------------------------------------------------------------------------
(* C3: when a manual return and an automatic overdue alert (timer callback *)
(* or sweep tick) act on the same report, the overdue counter rises by at  *)
(* most 1 for that report.                                                 *)
C3_ReturnRaceCountsOnce ==
    \A r \in 1 .. Len(reports) :
        reports[r].status = "returned" => counted[r] <= 1

----------------------------------------------------------------------------
(* C4: for a report that stays ongoing past its due time, the timer        *)
(* callback and the sweep together count it exactly once: the overdue      *)
(* increments made for it equal its alerted flag.                          *)
C4_TimerSweepOnce ==
    \A r \in 1 .. Len(reports) :
        reports[r].status = "ongoing" => counted[r] = reports[r].alerted

----------------------------------------------------------------------------
(* C5: a CheckIn of a subject whose previous CheckIn opened a session that *)
(* no CheckOut closed is answered AlreadyOpen and leaves the session table *)
(* as it was; stated here for a second CheckIn that comes no later than    *)
(* the stale threshold after the first, where the first session has not    *)
(* expired.                                                                *)
C5_SecondCheckInRejected ==
    [][ \A u \in Users :
          ( /\ Handled(u, CheckInKinds)
            /\ \E c \in OpenSessions(u) : now - c.start_ts <= StaleAfter )
          => (pending'[u].kind = "AlreadyOpen" /\ checkins' = checkins)
      ]_vars

----------------------------------------------------------------------------
(* C6: the settlement a CheckOut reports and stores: gross = now - s,      *)
(* deducted = the sum, over the subject's reports with due > s and         *)
(* start < now, of overlap(s, now, start, effective end), the effective    *)
(* end being the return instant of a returned report and min(due, now) of  *)
(* an ongoing one, and net = max(0, gross - deducted).                     *)

\* the effective end of report r at a check-out at n
C6_EffectiveEnd(r, n) ==
    IF r.status = "returned" THEN r.end_ts
    ELSE IF r.due_ts <= n THEN r.due_ts ELSE n

\* the charge of report r for the session [s, n)
C6_Charge(r, s, n) ==
    LET lo == IF s >= r.start_ts THEN s ELSE r.start_ts
        e  == C6_EffectiveEnd(r, n)
        hi == IF n <= e THEN n ELSE e
    IN  IF hi > lo THEN hi - lo ELSE 0

\* the sum of the charges of the reports 1 .. k of u that qualify
RECURSIVE C6_Deducted(_, _, _, _)
C6_Deducted(k, u, s, n) ==
    IF k = 0 THEN 0
    ELSE C6_Deducted(k - 1, u, s, n)
         + (IF reports[k].user = u /\ reports[k].due_ts > s /\ reports[k].start_ts < n
            THEN C6_Charge(reports[k], s, n) ELSE 0)

C6_Settlement ==
    \A u \in Users :
        pending[u].kind = "Settled" =>
            \E c \in Sessions(u) :
                /\ c.start_ts = pending[u].start
                /\ c.end_ts # Null
                /\ LET s == c.start_ts
                       n == c.end_ts
                       d == C6_Deducted(Len(reports), u, s, n)
                   IN  /\ pending[u].gross = n - s
                       /\ pending[u].deducted = d
                       /\ pending[u].net = (IF n - s - d > 0 THEN n - s - d ELSE 0)
                       /\ c.work_seconds = pending[u].net

\* a check-out charged a report returned before its due time: its used time,
\* less than the allotted time, is what was deducted
C6_Witness ==
    \E u \in Users :
        /\ pending[u].kind = "Settled"
        /\ \E r \in 1 .. Len(reports) :
              /\ reports[r].user = u
              /\ reports[r].status = "returned"
              /\ reports[r].start_ts >= pending[u].start
              /\ reports[r].end_ts < reports[r].due_ts
              /\ pending[u].deducted >= reports[r].end_ts - reports[r].start_ts
              /\ pending[u].deducted > 0
              /\ pending[u].deducted < reports[r].minutes * 60

----------------------------------------------------------------------------
(* C7 as claimed: whenever CheckIn or CheckOut runs, every open session    *)
(* older than the stale threshold is force-closed with end = start and     *)
(* net = 0; a CheckOut never settles it and a CheckIn is never rejected    *)
(* because of it.                                                          *)

\* the open sessions of u that are stale at the present clock
StaleSessions(u) == { c \in OpenSessions(u) : now - c.start_ts > StaleAfter }

ForceClosed(c) == [c EXCEPT !.end_ts = c.start_ts, !.work_seconds = 0]

C7_RepairCloses(u) ==
    Handled(u, CheckInKinds \cup CheckOutKinds) =>
        /\ \A c \in StaleSessions(u) : ForceClosed(c) \in checkins' /\ c \notin checkins'
        /\ pending'[u].kind = "Settled" =>
              \A c \in StaleSessions(u) : pending'[u].start # c.start_ts

----------------------------------------------------------------------------
(* C8 as claimed: a CheckIn by a subject with no open session succeeds and *)
(* creates an open session with start = now, end null, net 0.              *)

NewSession(u, c) ==
    /\ c.user = u /\ c.start_ts = now /\ c.end_ts = Null /\ c.work_seconds = 0
    /\ c.date = LocalDate(now)

C8_CheckInWithoutOpenSession ==
    [][ \A u \in Users :
          (Handled(u, CheckInKinds) /\ OpenSessions(u) = {})
          => /\ pending'[u].kind \in {"CheckedIn", "Late"}
             /\ \E c \in checkins' \ checkins : NewSession(u, c)
      ]_vars

(* C8 as amended: a CheckIn by a subject with no session of the present    *)
(* local calendar day, open or closed, succeeds and creates an open        *)
(* session with start = now, end null, net 0 and changes no other row but  *)
(* by stale repair; with a session of that day, even a closed one, it is   *)
(* rejected and creates none.                                              *)
C8_CheckInOncePerDay ==
    [][ \A u \in Users :
          Handled(u, CheckInKinds) =>
             IF \E c \in Sessions(u) : c.date = LocalDate(now)
             THEN /\ pending'[u].kind = "AlreadyOpen"
                  /\ Cardinality(checkins') = Cardinality(checkins)
                  /\ \A c \in checkins' \ checkins : ~NewSession(u, c)
             ELSE /\ pending'[u].kind \in {"CheckedIn", "Late"}
                  /\ \E c \in checkins' \ checkins : NewSession(u, c)
                  /\ Cardinality(checkins') = Cardinality(checkins) + 1
      ]_vars

\* a CheckIn succeeded on the day after a session that a CheckOut closed
C8_Witness ==
    \E u \in Users :
        /\ pending[u].kind \in {"CheckedIn", "Late"}
        /\ \E c, d \in Sessions(u) :
              /\ c.end_ts # Null /\ c.end_ts > c.start_ts
              /\ d.end_ts = Null /\ d.start_ts = pending[u].start
              /\ d.date = c.date + 1

----------------------------------------------------------------------------
(* C9: a session's late flag is set exactly when the local time of day of  *)
(* its check-in is strictly after the deadline.                            *)
C9_LateFlag ==
    \A c \in checkins :
        /\ c.is_late \in {0, 1}
        /\ c.is_late = 1 <=> SecondOfDay(c.start_ts) > DeadlineSecond

\* one session checked in at the deadline second, not late, and one a second
\* after it, late
C9_Witness ==
    \E c, d \in checkins :
        /\ SecondOfDay(c.start_ts) = DeadlineSecond /\ c.is_late = 0
        /\ SecondOfDay(d.start_ts) = DeadlineSecond + 1 /\ d.is_late = 1

----------------------------------------------------------------------------
(* C10: the late counter of a subject rises by exactly 1 in a step that    *)
(* creates a session of the subject with the late flag set, the total      *)
(* reported being the new value, and no other step changes it.             *)
C10_LateCounter ==
    [][ \A u \in Users :
          IF \E c \in checkins' \ checkins : c.user = u /\ c.end_ts = Null /\ c.is_late = 1
          THEN /\ LateCount(stats', u) = LateCount(stats, u) + 1
               /\ pending'[u].kind = "Late"
               /\ pending'[u].total = LateCount(stats', u)
          ELSE /\ LateCount(stats', u) = LateCount(stats, u)
               /\ pending'[u].kind = "Late" => pending[u].kind = "Late"
      ]_vars

\* the second late check-in of a subject reports a total of 2
C10_Witness ==
    \E u \in Users :
        /\ pending[u].kind = "Late"
        /\ pending[u].total = 2
        /\ LateCount(stats, u) = 2

----------------------------------------------------------------------------
(* C11: once a report has been counted and marked alerted, every later     *)
(* action on it leaves the overdue count unchanged: a manual return is     *)
(* answered without the overdue total and changes no counter, a later      *)
(* sweep tick does not select the report, a later run of its timer ends    *)
(* without sending, and, when no alert task that began before the mark is  *)
(* still awaiting its send, no step at all adds an increment for it.       *)

\* the sweep holds report r among the rows it read
InSweep(rows, r) == \E i \in 1 .. Len(rows) : rows[i] = r

C11_AlertedCountsNoMore ==
    [][ \A r \in 1 .. Len(reports) :
          reports[r].alerted = 1 =>
            /\ (\E u \in Users :
                    Handled(u, {"Returned", "ReturnedOverdue"}) /\ pending'[u].rid = r)
                 => /\ stats' = stats
                    /\ pending'[reports[r].user].kind = "Returned"
            /\ InSweep(sweepRows', r) => InSweep(sweepRows, r)
            /\ jobs'[r] = "sending" => jobs[r] = "sending"
            /\ (jobs[r] # "sending" /\ ~InSweep(sweepRows, r))
                 => counted'[r] = counted[r]
      ]_vars

\* a report counted by the sweep or the timer was returned late afterwards, and
\* the subject's overdue counter stands at 1
C11_Witness ==
    \E u \in Users :
        /\ pending[u].kind = "Returned"
        /\ LET r == pending[u].rid
           IN  /\ reports[r].alerted = 1
               /\ reports[r].end_ts > reports[r].due_ts
               /\ counted[r] = 1
               /\ OverdueCount(stats, u) = 1

----------------------------------------------------------------------------
(* C12: a report that is ongoing and not alerted after its due instant is  *)
(* eventually alerted with an overdue increment made for it, by the sweep  *)
(* or by a manual return, also when its timer was never armed, was lost in *)
(* a restart of the process, or ended on a failed send.                    *)

Unalerted(r) ==
    /\ r <= Len(reports)
    /\ reports[r].status = "ongoing"
    /\ reports[r].alerted = 0
    /\ now > reports[r].due_ts

AlertedAndCounted(r) ==
    /\ r <= Len(reports)
    /\ reports[r].alerted = 1
    /\ counted[r] >= 1

C12_SweepRecovers ==
    \A r \in 1 .. MaxReports : Unalerted(r) ~> AlertedAndCounted(r)

\* after a restart of the process a report past its due instant has no timer
\* and is not alerted, and the sweep has selected it
C12_Witness ==
    \E r \in 1 .. Len(reports) :
        /\ restarts = 1
        /\ Unalerted(r)
        /\ jobs[r] = "none"
        /\ InSweep(sweepRows, r)

----------------------------------------------------------------------------
(* C13: in no reachable state is a subject's lock held while a reply of    *)
(* one of the subject's handlers (CheckIn, CheckOut, StartReport,          *)
(* EndReport, error replies included) is being delivered.                  *)
C13_NoLockDuringReply ==
    \A u \in Users : pending[u].kind # "none" => ~locks[u]

----------------------------------------------------------------------------
(* C14: at most one user operation of a subject is inside its locked       *)
(* section at a time: a handler of a subject enters only when the          *)
(* subject's lock is free and holds it from then on, so of two duplicate   *)
(* submissions only one inserts (one session per subject and day, one      *)
(* ongoing report per subject); and a lock held for one subject blocks no  *)
(* operation of another subject.                                           *)

\* the step is a handler of u entering its section and producing a reply
Entered(u) == pending'[u] # pending[u] /\ pending'[u].kind # "none"

C14_Serialized(u) ==
    /\ locks[u] <=> pending[u].kind # "none"
    /\ \A c, d \in Sessions(u) : c.date = d.date => c = d
    /\ Cardinality(OngoingIds(reports, u)) <= 1

C14_Independent(u, v) ==
    (locks[u] /\ ~locks[v]) =>
        /\ ENABLED CheckIn(v)
        /\ ENABLED CheckOut(v)
        /\ ENABLED EndReport(v)
        /\ Len(reports) < MaxReports => \A k \in Keywords : ENABLED StartReport(v, k)

C14_PerSubjectLock ==
    /\ [](\A u \in DOMAIN locks :
            /\ C14_Serialized(u)
            /\ \A v \in DOMAIN locks \ {u} : C14_Independent(u, v))
    /\ [][ \A u \in DOMAIN locks :
             Entered(u) => (~locks[u] /\ pending[u].kind = "none" /\ locks'[u])
         ]_vars

\* a duplicate CheckIn of subject 1 was refused in the second of the first,
\* while the other subject is inside a CheckIn of its own
C14_Witness ==
    /\ DOMAIN locks = TwoUsers
    /\ locks[1] /\ locks[2]
    /\ pending[1].kind = "AlreadyOpen"
    /\ \E c \in Sessions(1) : c.start_ts = now
    /\ pending[2].kind = "CheckedIn"
    /\ \E c \in Sessions(2) : c.start_ts = now /\ c.end_ts = Null

----------------------------------------------------------------------------
(* C15: when the process stops at any point inside a logical operation,    *)
(* the store holds the state before the operation or the state after the   *)
(* whole of it: the late counter of a subject equals the number of its     *)
(* sessions with the late flag set, a report with an overdue increment     *)
(* made for it is alerted, and a report returned after its due instant is  *)
(* alerted.                                                                *)
C15_AllOrNothing ==
    /\ \A u \in Users :
          LateCount(stats, u) = Cardinality({ c \in Sessions(u) : c.is_late = 1 })
    /\ \A r \in 1 .. Len(reports) :
          /\ counted[r] >= 1 => reports[r].alerted = 1
          /\ (reports[r].status = "returned" /\ reports[r].end_ts > reports[r].due_ts)
                => reports[r].alerted = 1

----------------------------------------------------------------------------
(* C16: an EndReport of a subject with an ongoing report sets the report   *)
(* returned with end = now and replies the used seconds now - start and    *)
(* the overdue flag now > due (strict), whatever the alerted flag; with no *)
(* ongoing report it replies NoOngoing and changes no record.              *)
EndReportKinds == {"Returned", "ReturnedOverdue", "NoOngoing"}

C16_EndReportOutcome ==
    [][ \A u \in Users :
          Handled(u, EndReportKinds) =>
             IF OngoingIds(reports, u) = {}
             THEN /\ pending'[u].kind = "NoOngoing"
                  /\ reports' = reports /\ stats' = stats /\ checkins' = checkins
             ELSE \E r \in OngoingIds(reports, u) :
                     /\ reports'[r].status = "returned"
                     /\ reports'[r].end_ts = now
                     /\ pending'[u].gross = now - reports[r].start_ts
                     /\ pending'[u].kind = "ReturnedOverdue" <=> now > reports[r].due_ts
      ]_vars

----------------------------------------------------------------------------
(* C17: the lifecycle of a session.  No step deletes a session or changes  *)
(* its start instant; net seconds is 0 while the end instant is null; a    *)
(* step sets the end instant of an open session only as a CheckOut (end =  *)
(* now, net = max(0, (now - start) - deducted)) or as the stale repair     *)
(* (end = start, net 0), and a session whose end instant is set never      *)
(* changes again; a CheckOut of a subject with no open session replies     *)
(* NoOpenSession and changes no record.                                    *)

SameSession(c, d) == c.user = d.user /\ c.date = d.date

\* d is the open session c as the CheckOut of this step settles it
SettledFrom(c, d) ==
    /\ Handled(c.user, {"Settled"})
    /\ pending'[c.user].start = c.start_ts
    /\ d.end_ts = now
    /\ d.work_seconds = Max(0, (now - c.start_ts) - pending'[c.user].deducted)

C17_SessionLifecycle ==
    [][ /\ \A c \in checkins :
              \E d \in checkins' :
                 /\ SameSession(c, d)
                 /\ d.start_ts = c.start_ts
                 /\ c.end_ts # Null => d = c
                 /\ c.end_ts = Null =>
                       \/ d = c
                       \/ d = ForceClosed(c) /\ c \in StaleSessions(c.user)
                       \/ d = [c EXCEPT !.end_ts = d.end_ts,
                                        !.work_seconds = d.work_seconds]
                          /\ SettledFrom(c, d)
        /\ \A d \in checkins' : d.end_ts = Null => d.work_seconds = 0
        /\ \A u \in Users :
              (Handled(u, CheckOutKinds) /\ OpenSessions(u) = {})
              => /\ pending'[u].kind = "NoOpenSession"
                 /\ checkins' = checkins /\ reports' = reports /\ stats' = stats
      ]_vars

\* one session was settled by a CheckOut, with time worked, and a later one was
\* closed by the stale repair; the CheckOut that found it closed was refused
C17_Witness ==
    \E u \in Users :
        /\ pending[u].kind = "NoOpenSession"
        /\ \E c, d \in Sessions(u) :
              /\ c.end_ts > c.start_ts /\ c.work_seconds > 0
              /\ d.date > c.date
              /\ d.end_ts = d.start_ts /\ d.work_seconds = 0
              /\ now - d.start_ts > StaleAfter

----------------------------------------------------------------------------
(* C18: the lifecycle of a leave report.  A report is created ongoing,     *)
(* with end null, alerted false and due = start + minutes * 60; no step    *)
(* deletes a report or changes its subject, keyword, minutes, start or     *)
(* due; it is ongoing exactly when its end instant is null; once returned  *)
(* it stays returned with the same end instant; alerted never goes from    *)
(* true back to false.                                                     *)
C18_ReportLifecycle ==
    [][ /\ Len(reports') >= Len(reports)
        /\ \A r \in 1 .. Len(reports) :
              LET a == reports[r]
                  b == reports'[r]
              IN  /\ b.user = a.user /\ b.keyword = a.keyword /\ b.minutes = a.minutes
                  /\ b.start_ts = a.start_ts /\ b.due_ts = a.due_ts
                  /\ a.status = "returned" => (b.status = "returned" /\ b.end_ts = a.end_ts)
                  /\ a.alerted = 1 => b.alerted = 1
        /\ \A r \in Len(reports) + 1 .. Len(reports') :
              LET b == reports'[r]
              IN  /\ b.status = "ongoing" /\ b.end_ts = Null /\ b.alerted = 0
                  /\ b.start_ts = now
                  /\ b.minutes = REPORT_MAP[b.keyword]
                  /\ b.due_ts = b.start_ts + b.minutes * 60
        /\ \A r \in 1 .. Len(reports') :
              LET b == reports'[r]
              IN  /\ b.status \in {"ongoing", "returned"}
                  /\ b.alerted \in {0, 1}
                  /\ b.status = "ongoing" <=> b.end_ts = Null
      ]_vars

\* a first report was returned and a second one, created after it, is ongoing
\* and alerted
C18_Witness ==
    \E r, q \in 1 .. Len(reports) :
        /\ r < q
        /\ reports[r].status = "returned" /\ reports[r].end_ts >= reports[r].start_ts
        /\ reports[q].status = "ongoing" /\ reports[q].alerted = 1
        /\ reports[q].start_ts >= reports[r].end_ts

----------------------------------------------------------------------------
(* C19: at every CheckOut the summed deduction is at most the gross        *)
(* duration, so net = gross - deducted exactly and the clamp at 0 changes  *)
(* nothing: the reports of a subject do not overlap in time.               *)
C19_DeductionWithinGross ==
    \A u \in Users :
        pending[u].kind = "Settled" =>
            /\ pending[u].deducted >= 0
            /\ pending[u].deducted <= pending[u].gross
            /\ pending[u].net = pending[u].gross - pending[u].deducted
            /\ \A r, q \in 1 .. Len(reports) :
                  (r < q /\ reports[r].user = u /\ reports[q].user = u)
                  => /\ reports[r].status = "returned"
                     /\ reports[r].end_ts <= reports[q].start_ts

\* a session that lay wholly inside leave reports, two of them charged: the
\* deduction reaches the gross duration and net is 0 without the clamp
C19_Witness ==
    \E u \in Users :
        /\ pending[u].kind = "Settled"
        /\ pending[u].gross > 0
        /\ pending[u].deducted = pending[u].gross
        /\ pending[u].net = 0
        /\ Cardinality(ReportRows(reports, u, pending[u].start,
                                  pending[u].start + pending[u].gross)) = 2

----------------------------------------------------------------------------
(* C20: the overdue counter counts only reports that really were overdue:  *)
(* a report that is alerted, or has an overdue increment made for it, is   *)
(* ongoing at an instant strictly after its due instant or was returned    *)
(* strictly after its due instant.                                         *)
C20_CountedOnlyIfOverdue ==
    \A r \in 1 .. Len(reports) :
        (reports[r].alerted = 1 \/ counted[r] >= 1) =>
            \/ reports[r].status = "ongoing" /\ now > reports[r].due_ts
            \/ reports[r].status = "returned" /\ reports[r].end_ts > reports[r].due_ts

----------------------------------------------------------------------------
(* C21: a CheckOut changes only session records: it leaves every leave     *)
(* report (status, end instant, alerted), both counters, the jobs and the  *)
(* sweep as they were, so a report that is ongoing at the check-out is     *)
(* ongoing after it; with no open session left, that report still has a    *)
(* StartReport answered AlreadyOngoing, and the timer, the sweep or a late *)
(* return still count it.                                                  *)
C21_CheckOutFrame ==
    [][ \A u \in Users :
          /\ Handled(u, CheckOutKinds) =>
                /\ reports' = reports
                /\ stats' = stats
                /\ counted' = counted
                /\ jobs' = jobs
                /\ sweepRows' = sweepRows
                /\ \A c \in checkins' \ checkins : c.user = u
          /\ ( /\ Handled(u, {"Reported", "AlreadyOngoing"})
               /\ OpenSessions(u) = {}
               /\ OngoingIds(reports, u) # {} )
             => (pending'[u].kind = "AlreadyOngoing" /\ reports' = reports)
      ]_vars

\* a report that was ongoing when the subject's session was settled is still
\* ongoing, and was counted overdue after the session was closed
C21_Witness ==
    \E u \in Users :
        /\ OpenSessions(u) = {}
        /\ \E c \in Sessions(u), r \in OngoingIds(reports, u) :
              /\ c.end_ts > c.start_ts
              /\ reports[r].start_ts < c.end_ts
              /\ reports[r].due_ts > c.end_ts
              /\ reports[r].alerted = 1
              /\ counted[r] = 1
              /\ OverdueCount(stats, u) = 1

====
